---- MODULE Spec2Model ----
(***************************************************************************)
(* RipperFox backend (src/yt_backend.py, src/ytdlp_updater.py): the job    *)
(* tracker JOBS, the download dispatcher with its background task run_job, *)
(* the update record UPDATE_JOB with its background task _do_update, and   *)
(* the settings store (load_settings / save_settings).                     *)
(*                                                                         *)
(* HTTP handlers are one action each.  A background thread is a sequence   *)
(* of steps, one per statement that reads or writes shared state, because  *)
(* CPython may switch threads between any two of them.                     *)
(***************************************************************************)
EXTENDS Integers, Sequences, FiniteSets, Bags, TLC

VARIABLES
    now,                     \* time.time() in whole milliseconds
    nowRead,                 \* the current clock value has been read by the program
    nowJobs,                 \* number of dispatches that drew their id from the current clock value
    sinceClear,              \* accepted dispatches since the tracker was last cleared, counted up to JOB_HISTORY_LIMIT + 1
    YTDLP_UPDATER_AVAILABLE, \* yt_backend.py:8-13, fixed at import
    JOBS,                    \* the job tracker: a dict, kept as its items in insertion order
    tasks,                   \* the live run_job threads (a bag: two threads may be in the same place)
    dirs,                    \* directories that exist on disk
    resp,                    \* the answer of the HTTP handler that ran last, if recorded
    recording,               \* whether the handlers' answers are recorded in resp
    SETTINGS,                \* the global SETTINGS document
    settingsFile,            \* what SETTINGS_FILE holds on disk
    UPDATE_JOB,              \* the update record
    upd,                     \* the _do_update threads, one slot per accepted trigger
    seen,                    \* what the last GET /api/update-status answered
    loaded,                  \* the last run of load_settings: the file it read, what it returned
    call,                    \* the last call of a function made on its own: its arguments and its result
    ytdlp                    \* the yt-dlp installation: the file at get_ytdlp_binary_path(), sys.frozen, the bundled file

updVars == <<UPDATE_JOB, upd, seen>>
setVars == <<SETTINGS, settingsFile, loaded>>
vars == <<now, nowRead, nowJobs, sinceClear, YTDLP_UPDATER_AVAILABLE, JOBS, tasks, dirs, resp, recording,
          SETTINGS, settingsFile, loaded, UPDATE_JOB, upd, seen, call, ytdlp>>

-----------------------------------------------------------------------------
(* Bounds of the model.                                                    *)

\* the clock stops advancing here
MaxTime == 12
\* run_job threads alive at once
MaxLive == 2
\* dispatches within one millisecond
MaxSameMs == 2
\* accepted update triggers
MaxUpd == 2
\* the clock stops advancing here in the dispatcher specification
MaxDispatchTime == 2
\* tracked entries that carry an error status at once
MaxErrors == 1
\* site groups in a mapping the matcher is applied to
MaxGroups == 3

\* yt_backend.py:95
JOB_HISTORY_LIMIT == 10

\* Python's None where a string or a list is expected
None == "None"
\* Python's None where a dict is expected
NoDict == [none |-> TRUE]

-----------------------------------------------------------------------------
(* Python containers.                                                      *)

Min(a, b) == IF a < b THEN a ELSE b
Max(a, b) == IF a > b THEN a ELSE b

\* s[i:j] of a Python list, i and j already clamped to 0..len(s)
PyRange(s, i, j) == IF j <= i THEN <<>> ELSE SubSeq(s, i + 1, j)

\* s[-n:] for n > 0: the start index -n is len(s) - n, clamped at 0
PySliceLast(s, n) == PyRange(s, Max(Len(s) - n, 0), Len(s))

\* s[:-n] for n > 0: the stop index -n is len(s) - n, clamped at 0
PySliceButLast(s, n) == PyRange(s, 0, Max(Len(s) - n, 0))

\* d.get(k): the value, or None
DictGet(d, k) == IF k \in DOMAIN d THEN d[k] ELSE None

\* the keys of the tracker, in insertion order: list(JOBS.keys())
Keys(jobs) == [i \in 1..Len(jobs) |-> jobs[i].id]

HasKey(jobs, k) == \E i \in 1..Len(jobs) : jobs[i].id = k

IndexOf(jobs, k) == CHOOSE i \in 1..Len(jobs) : jobs[i].id = k

\* JOBS[k] = v: a new key goes last, an existing key keeps its place
DictSet(jobs, k, v) ==
    IF HasKey(jobs, k) THEN [jobs EXCEPT ![IndexOf(jobs, k)] = v]
    ELSE Append(jobs, v)

\* del JOBS[k], for a key that is present
DictDel(jobs, k) ==
    LET i == IndexOf(jobs, k)
    IN  PyRange(jobs, 0, i - 1) \o PyRange(jobs, i, Len(jobs))

\* JOBS[k]["status"] = s, for a key that is present
SetStatus(jobs, k, s) == [jobs EXCEPT ![IndexOf(jobs, k)].status = s]

-----------------------------------------------------------------------------
(* Strings that the code takes apart are sequences of one-character        *)
(* strings; a path is the sequence of its components, "/" first when the   *)
(* path is absolute, <<>> for the empty string.                            *)

RECURSIVE LStrip(_, _)
\* s.lstrip(chars)
LStrip(s, chars) ==
    IF s # <<>> /\ Head(s) \in chars THEN LStrip(Tail(s), chars) ELSE s

RECURSIVE RStrip(_, _)
\* s.rstrip(chars)
RStrip(s, chars) ==
    IF s # <<>> /\ s[Len(s)] \in chars THEN RStrip(SubSeq(s, 1, Len(s) - 1), chars) ELSE s

\* s.strip(chars)
Strip(s, chars) == RStrip(LStrip(s, chars), chars)

\* the pieces of s.split(sep) read so far, the last one still open, after
\* one more character c
SplitStep(pieces, sep, c) ==
    IF c = sep THEN Append(pieces, <<>>)
    ELSE [pieces EXCEPT ![Len(pieces)] = Append(@, c)]

RECURSIVE SplitOn(_, _, _)
\* s.split(sep), pieces being what was read so far (<< <<>> >> at the start)
SplitOn(s, sep, pieces) ==
    IF s = <<>> THEN pieces ELSE SplitOn(Tail(s), sep, SplitStep(pieces, sep, Head(s)))

\* [x for x in s if x]: the non-empty elements, in order
NonEmpty(s) ==
    LET keep == {i \in 1..Len(s) : s[i] # <<>>}
        \* the index in s of the k-th kept element
        nth(k) == CHOOSE i \in keep : Cardinality({j \in keep : j <= i}) = k
    IN  [k \in 1..Cardinality(keep) |-> s[nth(k)]]

\* needle in hay, for strings
Contains(hay, needle) ==
    \E i \in 0..(Len(hay) - Len(needle)) :
        \A j \in 1..Len(needle) : hay[i + j] = needle[j]

\* fnmatch.fnmatch(name, pat) on POSIX (case kept), for patterns made of
\* literal characters, "*" and "?".  A position i of 1..Len(pat)+1 says that
\* pat[1..i-1] has matched what was read of name.

\* the positions reached from S by letting "*" match nothing
StarClosure(pat, S) ==
    {j \in 1..(Len(pat) + 1) :
        \E i \in S : i <= j /\ \A k \in i..(j - 1) : pat[k] = "*"}

\* the positions reached from S by reading the character c
ReadChar(pat, S, c) ==
    {j \in 1..(Len(pat) + 1) :
        \/ j \in S /\ j <= Len(pat) /\ pat[j] = "*"
        \/ j - 1 \in S /\ pat[j - 1] # "*" /\ pat[j - 1] \in {"?", c}}

RECURSIVE MatchFrom(_, _, _)
MatchFrom(name, pat, S) ==
    IF name = <<>> THEN (Len(pat) + 1) \in StarClosure(pat, S)
    ELSE MatchFrom(Tail(name), pat, ReadChar(pat, StarClosure(pat, S), Head(name)))

fnmatch(name, pat) == MatchFrom(name, pat, {1})

\* yt_backend.py:271: [p.strip() for p in pattern_group.split(",") if p.strip()]
Patterns(pattern_group) ==
    LET parts == SplitOn(pattern_group, ",", << <<>> >>)
    IN  NonEmpty([i \in 1..Len(parts) |-> Strip(parts[i], {" "})])

\* yt_backend.py:274: the test one pattern is put to
PatternMatches(hostname, pattern) ==
    fnmatch(hostname, pattern) \/ Contains(hostname, Strip(pattern, {"*"}))

\* a dict is truthy when it has a key
CfgTruthy(cfg) == cfg # NoDict /\ DOMAIN cfg # {}

\* yt_backend.py:272-277: a pattern of the group matches
GroupMatches(hostname, pattern_group) ==
    LET pats == Patterns(pattern_group)
    IN  \E i \in 1..Len(pats) : PatternMatches(hostname, pats[i])

\* yt_backend.py:275-279: matched_cfg after one more item of download_dirs.
\* A group whose pattern matches sets matched_cfg; the loop stops only once
\* matched_cfg is truthy, so an empty cfg is replaced by a later match.
SiteStep(matched_cfg, hostname, item) ==
    IF CfgTruthy(matched_cfg) THEN matched_cfg
    ELSE IF GroupMatches(hostname, item.key) THEN item.cfg
    ELSE matched_cfg

RECURSIVE SiteLoop(_, _, _)
\* yt_backend.py:269-279: the loop over download_dirs.items()
SiteLoop(matched_cfg, hostname, items) ==
    IF items = <<>> THEN matched_cfg
    ELSE SiteLoop(SiteStep(matched_cfg, hostname, Head(items)), hostname, Tail(items))

\* urllib.parse.urlparse(url).hostname of the URLs the model dispatches:
\* the host in lower case, None when the URL has no network location
UrlHostname(url) ==
    CASE url = "https://youtu.be/abc"       -> <<"y","o","u","t","u",".","b","e">>
      [] url = "https://m.youtube.com/w"    -> <<"m",".","y","o","u","t","u","b","e",".","c","o","m">>
      [] url = "https://Vimeo.com/1"        -> <<"v","i","m","e","o",".","c","o","m">>
      [] url = "magnet:?xt=1"               -> None
      [] OTHER                              -> None

\* yt_backend.py:265: parsed.hostname or ""
HostOf(parsed_hostname) == IF parsed_hostname = None THEN <<>> ELSE parsed_hostname

\* yt_backend.py:281-286
OrNone(matched_cfg) == IF CfgTruthy(matched_cfg) THEN matched_cfg ELSE NoDict

\* yt_backend.py:263-286
get_site_config(url, download_dirs) ==
    OrNone(SiteLoop(NoDict, HostOf(UrlHostname(url)), download_dirs))

-----------------------------------------------------------------------------
(* os.path on POSIX.                                                       *)

\* yt_backend.py:90: the directory of the script
BASE_DIR == <<"/", "app">>
\* os.getcwd()
CWD == <<"/", "cwd">>
\* os.path.expanduser("~")
HOME == <<"/", "home", "u">>
\* tempfile.gettempdir()
TMPDIR == <<"/", "tmp">>

IsStr(p) == p # None

isabs(p) == p # <<>> /\ p[1] = "/"

\* os.path.join(a, b)
join(a, b) == IF isabs(b) THEN b ELSE a \o b

\* os.path.normpath: the stack of components after the component c
NormStep(acc, c) ==
    IF c = "." THEN acc
    ELSE IF c # ".." THEN Append(acc, c)
    ELSE IF acc = <<"/">> THEN acc
    ELSE IF acc = <<>> \/ acc[Len(acc)] = ".." THEN Append(acc, "..")
    ELSE SubSeq(acc, 1, Len(acc) - 1)

RECURSIVE NormParts(_, _)
\* os.path.normpath: the components of p read left to right onto the stack acc
NormParts(p, acc) ==
    IF p = <<>> THEN acc ELSE NormParts(Tail(p), NormStep(acc, Head(p)))

\* "." for the empty path
OrDot(r) == IF r = <<>> THEN <<".">> ELSE r

normpath(p) == OrDot(NormParts(p, <<>>))

\* os.path.abspath(p): joined to the working directory unless absolute, then
\* normalised
abspath(p) == normpath(IF isabs(p) THEN p ELSE join(CWD, p))

\* number of leading components a and b share
RECURSIVE CommonLen(_, _)
CommonLen(a, b) ==
    IF a # <<>> /\ b # <<>> /\ Head(a) = Head(b) THEN 1 + CommonLen(Tail(a), Tail(b)) ELSE 0

\* os.path.commonpath([a, b]) of two absolute paths
commonpath(a, b) == SubSeq(a, 1, CommonLen(a, b))

\* os.path.relpath: from start (absolute, as) up to the shared prefix of
\* length c, then down to p (absolute, ap)
RelParts(ap, as, c) == [i \in 1..(Len(as) - c) |-> ".."] \o SubSeq(ap, c + 1, Len(ap))

RelFrom(ap, as) == OrDot(RelParts(ap, as, CommonLen(ap, as)))

\* os.path.relpath(p, start)
relpath(p, start) == RelFrom(abspath(p), abspath(start))

-----------------------------------------------------------------------------
(* The settings store.  A document is a dict (a function on its keys);      *)
(* download_dirs is the list of its items, each [key, cfg].                *)

\* what SETTINGS_FILE holds: nothing (the file does not exist), an empty
\* file, text that is no JSON, or a JSON document
FileMissing == [kind |-> "missing"]
FileEmpty == [kind |-> "empty"]
FileCorrupt == [kind |-> "corrupt"]
FileDocument(doc) == [kind |-> "document", doc |-> doc]
IsDocument(file) == file.kind = "document"

\* a.update(b)
DictUpdate(a, b) == b @@ a

\* os.path.commonpath([q, base]) == base
IsCommonPath(base, q) == commonpath(q, base) = base

\* yt_backend.py:118-123, 129-134, 176-182, 187-193: a stored path that is
\* absolute and lies under BASE_DIR is rewritten relative to BASE_DIR
UnderBase(p) ==
    /\ IsStr(p)
    /\ isabs(p)
    /\ IsCommonPath(abspath(BASE_DIR), abspath(p))

\* a faulty save that stores every path as it is given; C14 tells it from
\* ToStored
ToStoredAsGiven(p) == p

ToStored(p) == IF UnderBase(p) THEN relpath(p, BASE_DIR) ELSE p

\* data.get("download_dirs", {})
GetDownloadDirs(data) == IF "download_dirs" \in DOMAIN data THEN data.download_dirs ELSE <<>>

\* yt_backend.py:127-134, 185-193: the loop over download_dirs.items()
StoredDirs(download_dirs) ==
    [i \in 1..Len(download_dirs) |->
        [key |-> download_dirs[i].key,
         cfg |-> IF "dir" \in DOMAIN download_dirs[i].cfg
                 THEN [download_dirs[i].cfg EXCEPT !.dir = ToStored(@)]
                 ELSE download_dirs[i].cfg]]

\* yt_backend.py:117-123, 175-182: default_dir, when there is one
StoredDefault(data) ==
    IF "default_dir" \in DOMAIN data THEN [data EXCEPT !.default_dir = ToStored(@)] ELSE data

\* yt_backend.py:115, 135-138: to_save is a shallow copy of data.  default_dir
\* is replaced in the copy alone; the cfg dicts are shared with data, so the
\* rewritten ones (stored) show in data as well.
Saved(data, stored) ==
    [file |-> FileDocument([download_dirs |-> stored] @@ StoredDefault(data)),
     data |-> IF "download_dirs" \in DOMAIN data
              THEN [data EXCEPT !.download_dirs = stored] ELSE data]

\* yt_backend.py:113-140: the file written and data afterwards
save_settings(data) == Saved(data, StoredDirs(GetDownloadDirs(data)))

\* yt_backend.py:145-150
DefaultSettings ==
    [default_dir   |-> <<"downloads">>,
     default_args  |-> "--recode-video mp4 --embed-thumbnail --embed-metadata",
     download_dirs |-> <<>>,
     show_toasts   |-> TRUE]

\* yt_backend.py:210-224: the runtime copy of base, paths made absolute
RuntimeCopy(base) ==
    LET dd == IF isabs(base.default_dir) THEN base.default_dir
              ELSE abspath(join(BASE_DIR, base.default_dir))
        resolved_download_dirs ==
            [i \in 1..Len(base.download_dirs) |->
                LET cfg == base.download_dirs[i].cfg
                    dir_val == DictGet(cfg, "dir")
                IN  [key |-> base.download_dirs[i].key,
                     cfg |-> IF dir_val # None /\ dir_val # <<>> /\ ~isabs(dir_val)
                             THEN [cfg EXCEPT !.dir = abspath(join(BASE_DIR, dir_val))]
                             ELSE cfg]]
    IN  [base EXCEPT !.default_dir = dd, !.download_dirs = resolved_download_dirs]

\* yt_backend.py:226-248: the directory that ends up as runtime["default_dir"],
\* unwritable being the directories os.makedirs fails on
FallbackDir(preferred, unwritable) ==
    LET fallback1 == abspath(join(BASE_DIR, <<"downloads">>))
        user_dl == join(HOME, <<"Downloads">>)
    IN  IF preferred \notin unwritable THEN preferred
        ELSE IF fallback1 \notin unwritable THEN fallback1
        ELSE IF user_dl \notin unwritable THEN user_dl
        ELSE TMPDIR

\* yt_backend.py:169-170
WithoutYtDlpPath(doc) == [k \in DOMAIN doc \ {"yt_dlp_path"} |-> doc[k]]

\* yt_backend.py:173-194: data with its paths under BASE_DIR made relative
Normalized(data) == [download_dirs |-> StoredDirs(GetDownloadDirs(data))] @@ StoredDefault(data)

\* yt_backend.py:173-193: a path was rewritten
Changed(data) ==
    \/ UnderBase(DictGet(data, "default_dir"))
    \/ StoredDirs(GetDownloadDirs(data)) # GetDownloadDirs(data)

\* yt_backend.py:196-204: base and the file, data being what the file held
LoadedBase(file, data, base) ==
    [base |-> base, file |-> IF Changed(data) THEN save_settings(base).file ELSE file]

\* a faulty load that takes the defaults for an empty or unparseable file
\* without writing them back; C13 tells it from LoadExisting
LoadExistingKeepsFile(file) ==
    IF ~IsDocument(file) THEN
        [base |-> DefaultSettings, file |-> file]
    ELSE
        LoadedBase(file, WithoutYtDlpPath(file.doc),
                   DictUpdate(DefaultSettings, Normalized(WithoutYtDlpPath(file.doc))))

\* yt_backend.py:163-207: base and the file after the try block, for a file
\* that exists
LoadExisting(file) ==
    IF ~IsDocument(file) THEN
        [base |-> DefaultSettings, file |-> save_settings(DefaultSettings).file]
    ELSE
        LoadedBase(file, WithoutYtDlpPath(file.doc),
                   DictUpdate(DefaultSettings, Normalized(WithoutYtDlpPath(file.doc))))

\* yt_backend.py:153-161: no file exists
LoadMissing(runtime, existing) ==
    [ret |-> runtime, runtime |-> runtime,
     file |-> save_settings(DefaultSettings).file, dirs |-> existing]

\* yt_backend.py:235-257: the end of load_settings for a file that exists.
\* It returns base, not the runtime copy rt it built.
LoadResult(l, rt, chosen, existing, unwritable) ==
    [ret |-> l.base,
     runtime |-> [rt EXCEPT !.default_dir = chosen],
     file |-> l.file,
     dirs |-> IF chosen \in unwritable THEN existing ELSE existing \cup {chosen}]

\* yt_backend.py:226-248, rt being the runtime copy of line 224
LoadRuntime(l, rt, existing, unwritable) ==
    LoadResult(l, rt, FallbackDir(rt.default_dir, unwritable), existing, unwritable)

\* yt_backend.py:210-257, l being base and the file after the try block
LoadLoaded(l, existing, unwritable) == LoadRuntime(l, RuntimeCopy(l.base), existing, unwritable)

\* yt_backend.py:143-257: what load_settings returns (ret), the file and the
\* directories it leaves on disk, and the runtime copy it built (runtime)
load_settings(file, existing, unwritable) ==
    IF file = FileMissing THEN
        LoadMissing([DefaultSettings EXCEPT
                        !.default_dir = abspath(join(BASE_DIR, DefaultSettings.default_dir)),
                        !.download_dirs = <<>>],
                    existing)
    ELSE
        LoadLoaded(LoadExisting(file), existing, unwritable)

-----------------------------------------------------------------------------
(* The clock.                                                              *)

\* a millisecond passes.  A clock value nothing has read is not observable,
\* so the clock is advanced only past values that were read.
Tick ==
    /\ now < MaxTime
    /\ nowRead
    /\ now' = now + 1
    /\ nowRead' = FALSE
    /\ nowJobs' = 0
    /\ UNCHANGED <<sinceClear, YTDLP_UPDATER_AVAILABLE, recording, JOBS, tasks, dirs, resp,
                   setVars, updVars, call, ytdlp>>

-----------------------------------------------------------------------------
(* POST /api/download and the thread it starts.                            *)

\* the answer a handler sends, as resp keeps it
Answer(r) == IF recording THEN r ELSE NoDict

\* a faulty `if not url` that lets the empty string through (it tests
\* `url is None`); C7 tells it from Falsy
FalsyNoneOnly(url) == url = None

\* `if not url`: None and the empty string are falsy
Falsy(url) == url = None \/ url = ""

\* a run_job thread at the statement pc; job_id is the closure's id and olds
\* the list the cleanup loop iterates
Task(job_id, pc, olds) == [job |-> job_id, pc |-> pc, olds |-> olds]

Spawn(bag, t) == bag (+) SetToBag({t})
Retire(bag, t) == bag (-) SetToBag({t})
Move(bag, t, u) == Spawn(Retire(bag, t), u)

\* yt_backend.py:356: str(int(time.time() * 1000))
NewJobId == now

\* yt_backend.py:348: parsed.hostname or "unknown"
SiteOf(parsed_hostname) == IF parsed_hostname = None THEN "unknown" ELSE parsed_hostname

\* a faulty line 351 that ignores the site settings; C8 tells it from
\* DownloadDir
DownloadDirDefault(site_settings) == SETTINGS.default_dir

\* yt_backend.py:351
DownloadDir(site_settings) ==
    IF site_settings # NoDict THEN DictGet(site_settings, "dir") ELSE SETTINGS.default_dir

\* yt_backend.py:353-417: os.makedirs raises for None; otherwise the entry is
\* stored under job_id, the thread is started and the id is answered
Dispatch(url, hostname, download_dir, job_id) ==
    IF download_dir = None THEN
        /\ resp' = Answer([code |-> 500])
        /\ UNCHANGED <<nowRead, nowJobs, sinceClear, JOBS, tasks, dirs>>
    ELSE
        /\ dirs' = dirs \cup {abspath(download_dir)}
        /\ nowRead' = TRUE
        /\ nowJobs' = nowJobs + 1
        /\ sinceClear' = Min(sinceClear + 1, JOB_HISTORY_LIMIT + 1)
        /\ JOBS' = DictSet(JOBS, job_id,
                           [id |-> job_id, url |-> url, site |-> hostname,
                            status |-> "starting", dir |-> download_dir])
        /\ tasks' = Spawn(tasks, Task(job_id, "start", <<>>))
        /\ resp' = Answer([code |-> 200, job_id |-> job_id])

\* yt_backend.py:341-417.  makedirs_ok: os.makedirs(download_dir) succeeds
\* (it raises for a directory that cannot be created and for None).
download(url, makedirs_ok) ==
    IF Falsy(url) THEN
        /\ resp' = Answer([code |-> 400, error |-> "No URL provided"])
        /\ UNCHANGED <<now, nowRead, nowJobs, sinceClear, YTDLP_UPDATER_AVAILABLE,
                       recording, JOBS, tasks, dirs, setVars, updVars, call, ytdlp>>
    ELSE IF ~makedirs_ok THEN
        \* the handler ends with the exception: an internal server error
        /\ resp' = Answer([code |-> 500])
        /\ UNCHANGED <<now, nowRead, nowJobs, sinceClear, YTDLP_UPDATER_AVAILABLE,
                       recording, JOBS, tasks, dirs, setVars, updVars, call, ytdlp>>
    ELSE
        /\ BagCardinality(tasks) < MaxLive
        /\ nowJobs < MaxSameMs
        /\ Dispatch(url, SiteOf(UrlHostname(url)),
                    DownloadDir(get_site_config(url, GetDownloadDirs(SETTINGS))), NewJobId)
        /\ UNCHANGED <<now, YTDLP_UPDATER_AVAILABLE, recording, setVars, updVars, call, ytdlp>>

-----------------------------------------------------------------------------
(* ytdlp_updater.py: the installed yt-dlp binary.  A file is "absent",     *)
(* "broken" (it exists and reports no version) or the version it reports.  *)

\* the versions a yt-dlp file can report
Versions == {"2025.01.01"}
\* what a file that exists can be
Contents == {"broken"} \cup Versions
\* what download_latest_ytdlp can do when it is called: fail and leave the
\* file alone ("fail"), or write the file it fetched
Fetches == {"fail"} \cup Contents

\* ytdlp_updater.py:20-24
YTDLP_PATH == <<"/", "app", "yt-dlp">>

\* an installation whose binary works, outside a packaged build
WorkingInstall == [file |-> "2025.01.01", frozen |-> FALSE, bundled |-> "absent"]

\* ytdlp_updater.py:84-96: the stripped output of `--version`; None when the
\* file cannot be run, the empty string when it prints nothing
get_ytdlp_version(file) ==
    IF file = "absent" THEN None ELSE IF file = "broken" THEN "" ELSE file

\* what ensure_ytdlp_binary hands back, the file it leaves at YTDLP_PATH, and
\* the strategies it went through (steps)
Ensured(version, file, steps) ==
    IF Falsy(version)
    THEN [path |-> None, version |-> None, file |-> file, steps |-> steps]
    ELSE [path |-> YTDLP_PATH, version |-> version, file |-> file, steps |-> steps]

\* ytdlp_updater.py:59-82 and 123-129: the download, with `file` at YTDLP_PATH
\* and `steps` behind
EnsureDownload(file, fetched, steps) ==
    IF fetched = "fail"
    THEN Ensured(None, file, Append(steps, "download"))
    ELSE Ensured(get_ytdlp_version(fetched), fetched, Append(steps, "download"))

\* a faulty second strategy that copies the bundled file outside a packaged
\* build as well; C23 tells it from EnsureBundled
EnsureBundledUnpackaged(install, fetched) ==
    IF install.bundled # "absent" THEN
        IF Falsy(get_ytdlp_version(install.bundled))
        THEN EnsureDownload(install.bundled, fetched, <<"copy">>)
        ELSE Ensured(get_ytdlp_version(install.bundled), install.bundled, <<"copy">>)
    ELSE
        EnsureDownload(install.file, fetched, <<>>)

\* ytdlp_updater.py:108-121: the bundled copy, in a packaged build
EnsureBundled(install, fetched) ==
    IF install.frozen /\ install.bundled # "absent" THEN
        IF Falsy(get_ytdlp_version(install.bundled))
        THEN EnsureDownload(install.bundled, fetched, <<"copy">>)
        ELSE Ensured(get_ytdlp_version(install.bundled), install.bundled, <<"copy">>)
    ELSE
        EnsureDownload(install.file, fetched, <<>>)

\* ytdlp_updater.py:98-129
ensure_ytdlp_binary(install, fetched) ==
    IF install.file # "absent" /\ ~Falsy(get_ytdlp_version(install.file))
    THEN Ensured(get_ytdlp_version(install.file), install.file, <<>>)
    ELSE EnsureBundled(install, fetched)

\* ytdlp_updater.py:131-136: run_ytdlp_with_binary raises when r, the result
\* of ensure_ytdlp_binary, has no path; the file is as r left it
RunGives(r, outcome) ==
    /\ r.path = None => outcome = "raise"
    /\ ytdlp' = [ytdlp EXCEPT !.file = r.file]

\* what ensure_ytdlp_binary can do on the installation, whatever a download
\* it makes fetches
EnsureOutcomes(install) == {ensure_ytdlp_binary(install, fetched) : fetched \in Fetches}

\* ytdlp_updater.py:131-160, as far as the installation goes
BinaryStep(outcome) == \E r \in EnsureOutcomes(ytdlp) : RunGives(r, outcome)

\* yt_backend.py:322: ensure_ytdlp_binary hands back `version`; r is its result
EnsureGives(r, version) ==
    /\ r.version = version
    /\ ytdlp' = [ytdlp EXCEPT !.file = r.file]

\* yt_backend.py:322: ensure_ytdlp_binary hands back `version`, or raises
\* ("raise") before it has touched the file
EnsureStep(version) ==
    IF version = "raise" THEN UNCHANGED ytdlp
    ELSE \E r \in EnsureOutcomes(ytdlp) : EnsureGives(r, version)

-----------------------------------------------------------------------------
(* ytdlp_updater.py: check_for_ytdlp_update.  Version strings are          *)
(* sequences of characters.                                                *)

\* None (JSON null) where a text is expected: no text, for every text is a
\* sequence of single characters
NoText == <<None>>

\* `not text`: None and the empty string are falsy
FalsyText(text) == text = NoText \/ text = <<>>

Digits == {"0", "1", "2"}

DigitValue(c) == CASE c = "0" -> 0 [] c = "1" -> 1 [] c = "2" -> 2

RECURSIVE ParseInt(_, _)
\* int(piece), acc being the value of the digits read so far
ParseInt(piece, acc) ==
    IF piece = <<>> THEN acc ELSE ParseInt(Tail(piece), 10 * acc + DigitValue(Head(piece)))

\* the pieces between the dots are numbers
AllNumbers(pieces) ==
    \A i \in 1..Len(pieces) : pieces[i] # <<>> /\ \A k \in 1..Len(pieces[i]) : pieces[i][k] \in Digits

\* packaging.version.parse(...) of the pieces: its release, or the
\* InvalidVersion it raises
Release(pieces) ==
    IF AllNumbers(pieces)
    THEN [valid |-> TRUE, release |-> [i \in 1..Len(pieces) |-> ParseInt(pieces[i], 0)]]
    ELSE [valid |-> FALSE]

\* the text of a version without the one leading "v" that PEP 440 allows
WithoutV(text) == IF text # <<>> /\ Head(text) = "v" THEN Tail(text) ELSE text

\* packaging.version.parse(text)
parse(text) == Release(SplitOn(WithoutV(text), ".", << <<>> >>))

\* a release with its first segment taken off
Rest(release) == IF release = <<>> THEN <<>> ELSE Tail(release)
\* the first segment of a release, 0 past its end
First(release) == IF release = <<>> THEN 0 ELSE Head(release)

RECURSIVE Newer(_, _)
\* Version.__gt__ on releases: segment by segment, the shorter one padded
\* with zeros
Newer(a, b) ==
    IF a = <<>> /\ b = <<>> THEN FALSE
    ELSE IF First(a) # First(b) THEN First(a) > First(b)
    ELSE Newer(Rest(a), Rest(b))

\* the answers of the release endpoint: requests.get raises ("error"), a
\* status other than 200 ("status"), a body that is no JSON ("invalid"), a
\* JSON value that is no object ("list"), a JSON object ("dict", with doc)
Tags ==
    {NoText, <<>>, <<"v", "1", ".", "2">>, <<"v", "1", ".", "1", "0">>, <<"1", ".", "2", ".", "0">>,
     <<"v", "v", "2", ".", "0">>, <<"1", ".", "x">>}
AssetLists == {<<>>, <<"yt-dlp">>}
ReleaseDocs ==
    {[tag_name |-> t, assets |-> a] : t \in Tags, a \in AssetLists}
        \cup {[tag_name |-> t] : t \in Tags} \cup {[assets |-> a] : a \in AssetLists}
Responses ==
    {[kind |-> "error"], [kind |-> "status", status_code |-> 403], [kind |-> "invalid"],
     [kind |-> "list"]} \cup {[kind |-> "dict", doc |-> d] : d \in ReleaseDocs}
CurrentVersions == {NoText, <<>>, <<"1", ".", "2">>, <<"1", ".", "1", "0">>, <<"x">>}

\* what the function returns, or the exception that leaves it
Returned(needs_update, latest_version, assets) ==
    [raised |-> FALSE, needs_update |-> needs_update, latest_version |-> latest_version,
     assets |-> assets]
Raised == [raised |-> TRUE]

\* ytdlp_updater.py:47-52, both versions being there; an InvalidVersion
\* leaves the try block
Compared(latest, current, latest_version, assets) ==
    IF ~latest.valid \/ ~current.valid THEN Raised
    ELSE Returned(Newer(latest.release, current.release), latest_version, assets)

\* ytdlp_updater.py:44-52, latest_version being tag_name without its
\* leading "v"s
CheckVersions(current_version, latest_version, assets) ==
    IF ~FalsyText(current_version) /\ ~FalsyText(latest_version)
    THEN Compared(parse(latest_version), parse(current_version), latest_version, assets)
    ELSE Returned(FALSE, latest_version, assets)

\* ytdlp_updater.py:44: latest_release.get("tag_name", "").lstrip("v"); a
\* tag_name that is null has no lstrip
CheckTag(current_version, tag_name, assets) ==
    IF tag_name = NoText THEN Raised
    ELSE CheckVersions(current_version, LStrip(tag_name, {"v"}), assets)

\* ytdlp_updater.py:29-52: the try block without its outer except
CheckTry(current_version, response) ==
    IF response.kind = "error" THEN Raised
    ELSE IF response.kind \in {"status", "invalid"} THEN Returned(FALSE, NoText, <<>>)
    ELSE IF response.kind = "list" THEN Raised
    ELSE CheckTag(current_version,
                  IF "tag_name" \in DOMAIN response.doc THEN response.doc.tag_name ELSE <<>>,
                  IF "assets" \in DOMAIN response.doc THEN response.doc.assets ELSE <<>>)

\* a faulty check without the except block of lines 54-57; C24 tells it
\* from Caught
Uncaught(r) == r

\* ytdlp_updater.py:54-57
Caught(r) == IF r.raised THEN Returned(FALSE, NoText, <<>>) ELSE r

\* ytdlp_updater.py:26-57
check_for_ytdlp_update(current_version, response) == Caught(CheckTry(current_version, response))

-----------------------------------------------------------------------------
(* The run_job thread.                                                     *)

\* the tracked entries with an error status
ErrorCount(jobs) ==
    Cardinality({i \in 1..Len(jobs) :
        jobs[i].status \notin {"starting", "running", "completed"}})

\* the external tools fail with an error status only while that leaves at
\* most MaxErrors error entries in the tracker
ErrorsBounded(jobs) == ErrorCount(jobs) <= MaxErrors

\* what a step of a run_job thread leaves alone
TaskFrame == UNCHANGED <<now, nowRead, nowJobs, sinceClear, YTDLP_UPDATER_AVAILABLE,
                         recording, dirs, resp, setVars, updVars, call, ytdlp>>

\* yt_backend.py:360.  The statement is outside the try block: a KeyError
\* ends the thread.
TaskStart(t) ==
    /\ t.pc = "start"
    /\ IF HasKey(JOBS, t.job)
       THEN /\ JOBS' = SetStatus(JOBS, t.job, "running")
            /\ tasks' = Move(tasks, t, [t EXCEPT !.pc =
                            IF YTDLP_UPDATER_AVAILABLE THEN "binary" ELSE "library"])
       ELSE /\ tasks' = Retire(tasks, t)
            /\ UNCHANGED JOBS
    /\ TaskFrame

\* a faulty binary attempt whose exception ends the thread, with no library
\* attempt behind it; C25 tells it from TaskBinary
TaskBinaryNoFallback(t, outcome) ==
    /\ t.pc = "binary"
    /\ IF outcome = "rc0" /\ HasKey(JOBS, t.job)
       THEN /\ JOBS' = SetStatus(JOBS, t.job, "completed")
            /\ tasks' = Retire(tasks, t)
       ELSE IF outcome = "rcN" /\ HasKey(JOBS, t.job)
       THEN /\ JOBS' = SetStatus(JOBS, t.job, "error: <stderr>")
            /\ ErrorsBounded(JOBS')
            /\ tasks' = Move(tasks, t, [t EXCEPT !.pc = "library"])
       ELSE /\ UNCHANGED JOBS
            /\ tasks' = Retire(tasks, t)
    /\ BinaryStep(outcome)
    /\ UNCHANGED <<now, nowRead, nowJobs, sinceClear, YTDLP_UPDATER_AVAILABLE,
                   recording, dirs, resp, setVars, updVars, call>>

\* yt_backend.py:387-398: run_ytdlp_with_binary returns with exit code 0
\* ("rc0") or another one ("rcN"), or raises ("raise").  A KeyError of the
\* status write is caught by the inner except like any other exception, and
\* the thread goes on to the library attempt.
TaskBinary(t, outcome) ==
    /\ t.pc = "binary"
    /\ IF outcome = "rc0" /\ HasKey(JOBS, t.job)
       THEN /\ JOBS' = SetStatus(JOBS, t.job, "completed")
            /\ tasks' = Retire(tasks, t)              \* line 392: return
       ELSE IF outcome = "rcN" /\ HasKey(JOBS, t.job)
       THEN /\ JOBS' = SetStatus(JOBS, t.job, "error: <stderr>")
            /\ ErrorsBounded(JOBS')
            /\ tasks' = Move(tasks, t, [t EXCEPT !.pc = "library"])
       ELSE /\ UNCHANGED JOBS
            /\ tasks' = Move(tasks, t, [t EXCEPT !.pc = "library"])
    /\ BinaryStep(outcome)
    /\ UNCHANGED <<now, nowRead, nowJobs, sinceClear, YTDLP_UPDATER_AVAILABLE,
                   recording, dirs, resp, setVars, updVars, call>>

\* a faulty library attempt that leaves an error status in place when
\* ydl.download returns; C12 tells it from TaskLibrary
TaskLibraryKeepsError(t, outcome) ==
    /\ t.pc = "library"
    /\ IF outcome = "ok"
       THEN IF HasKey(JOBS, t.job)
            THEN /\ JOBS' = IF JOBS[IndexOf(JOBS, t.job)].status = "error: <stderr>"
                            THEN JOBS ELSE SetStatus(JOBS, t.job, "completed")
                 /\ tasks' = Move(tasks, t, [t EXCEPT !.pc = "cleanup"])
            ELSE /\ UNCHANGED JOBS
                 /\ tasks' = Move(tasks, t, [t EXCEPT !.pc = "except"])
       ELSE IF HasKey(JOBS, t.job)
            THEN /\ JOBS' = SetStatus(JOBS, t.job, "error: <exception>")
                 /\ ErrorsBounded(JOBS')
                 /\ tasks' = Move(tasks, t, [t EXCEPT !.pc = "cleanup"])
            ELSE /\ UNCHANGED JOBS
                 /\ tasks' = Retire(tasks, t)
    /\ TaskFrame

\* yt_backend.py:401-409: ydl.download returns ("ok") or raises ("raise").
\* A KeyError of the write at line 404 is caught by the outer except, whose
\* own write at line 408 is the step TaskExcept; a KeyError inside the except
\* block ends the thread.
TaskLibrary(t, outcome) ==
    /\ t.pc = "library"
    /\ IF outcome = "ok"
       THEN IF HasKey(JOBS, t.job)
            THEN /\ JOBS' = SetStatus(JOBS, t.job, "completed")
                 /\ tasks' = Move(tasks, t, [t EXCEPT !.pc = "cleanup"])
            ELSE /\ UNCHANGED JOBS
                 /\ tasks' = Move(tasks, t, [t EXCEPT !.pc = "except"])
       ELSE IF HasKey(JOBS, t.job)
            THEN /\ JOBS' = SetStatus(JOBS, t.job, "error: <exception>")
                 /\ ErrorsBounded(JOBS')
                 /\ tasks' = Move(tasks, t, [t EXCEPT !.pc = "cleanup"])
            ELSE /\ UNCHANGED JOBS
                 /\ tasks' = Retire(tasks, t)
    /\ TaskFrame

\* a faulty except block that stores a fresh entry when the job is gone
\* from the tracker; C17 tells it from TaskExcept
TaskExceptReinserts(t) ==
    /\ t.pc = "except"
    /\ JOBS' = IF HasKey(JOBS, t.job)
               THEN SetStatus(JOBS, t.job, "error: <KeyError>")
               ELSE DictSet(JOBS, t.job,
                            [id |-> t.job, url |-> "https://youtu.be/abc",
                             site |-> SiteOf(UrlHostname("https://youtu.be/abc")),
                             status |-> "error: <KeyError>", dir |-> SETTINGS.default_dir])
    /\ tasks' = Move(tasks, t, [t EXCEPT !.pc = "cleanup"])
    /\ TaskFrame

\* yt_backend.py:408, reached with the KeyError of line 404
TaskExcept(t) ==
    /\ t.pc = "except"
    /\ IF HasKey(JOBS, t.job)
       THEN /\ JOBS' = SetStatus(JOBS, t.job, "error: <KeyError>")
            /\ tasks' = Move(tasks, t, [t EXCEPT !.pc = "cleanup"])
       ELSE /\ UNCHANGED JOBS
            /\ tasks' = Retire(tasks, t)
    /\ TaskFrame

\* yt_backend.py:413: list(JOBS.keys())[:-JOB_HISTORY_LIMIT]
OldKeys(jobs) == PySliceButLast(Keys(jobs), JOB_HISTORY_LIMIT)

\* yt_backend.py:412-413: the test of len(JOBS) and the list the for loop
\* iterates.  The test changes nothing, so a thread that passes it and builds
\* the list later does what a thread does that tests at that later moment:
\* the two statements are one step, taken when the list is built.
TaskCleanup(t) ==
    /\ t.pc = "cleanup"
    /\ IF Len(JOBS) > JOB_HISTORY_LIMIT /\ OldKeys(JOBS) # <<>>
       THEN tasks' = Move(tasks, t, [t EXCEPT !.pc = "delete", !.olds = OldKeys(JOBS)])
       ELSE tasks' = Retire(tasks, t)
    /\ UNCHANGED JOBS
    /\ TaskFrame

\* yt_backend.py:414: del JOBS[old], one pass of the loop.  A key that is
\* gone raises KeyError, which ends the thread.
TaskDelete(t) ==
    /\ t.pc = "delete"
    /\ IF HasKey(JOBS, Head(t.olds))
       THEN /\ JOBS' = DictDel(JOBS, Head(t.olds))
            /\ IF Tail(t.olds) = <<>>
               THEN tasks' = Retire(tasks, t)
               ELSE tasks' = Move(tasks, t, [t EXCEPT !.olds = Tail(@)])
       ELSE /\ UNCHANGED JOBS
            /\ tasks' = Retire(tasks, t)
    /\ TaskFrame

-----------------------------------------------------------------------------
(* GET and DELETE /api/status.                                             *)

\* yt_backend.py:420-422: what GET /api/status answers, as the list of items
status == PySliceLast(JOBS, JOB_HISTORY_LIMIT)

\* yt_backend.py:424-428
clear_status ==
    /\ JOBS' = <<>>
    /\ sinceClear' = 0
    /\ resp' = Answer([code |-> 200, cleared |-> TRUE])
    /\ UNCHANGED <<now, nowRead, nowJobs, YTDLP_UPDATER_AVAILABLE, recording, tasks, dirs,
                   setVars, updVars, call, ytdlp>>

-----------------------------------------------------------------------------
(* POST /api/update-yt-dlp, the thread it starts, GET /api/update-status.  *)
(* An optional timestamp is <<>> for None and <<t>> for the time t.        *)

\* yt_backend.py:307
IdleUpdateJob ==
    [status |-> "idle", message |-> "Idle", started_at |-> <<>>, finished_at |-> <<>>,
     latest_version |-> None]

\* the places of a _do_update thread: not started ("none"), started and yet
\* to run line 318 ("spawned"), inside download_latest_ytdlp ("download"),
\* inside ensure_ytdlp_binary ("ensure"), ended ("done"); wrote is the status
\* the thread wrote last
UpdThread(pc, wrote) == [pc |-> pc, wrote |-> wrote]

UpdSlots == 1..MaxUpd

FreeSlots == {i \in UpdSlots : upd[i].pc = "none"}

\* a faulty handler without the test of lines 312-313: it starts a thread
\* whether or not the updater was imported; C16 tells it from
\* update_yt_dlp_api
update_yt_dlp_api_unguarded ==
    /\ FreeSlots # {}
    /\ LET i == CHOOSE j \in FreeSlots : \A k \in FreeSlots : j <= k
       IN  upd' = [upd EXCEPT ![i] = UpdThread("spawned", None)]
    /\ resp' = Answer([code |-> 200, status |-> "started"])
    /\ UNCHANGED <<now, nowRead, nowJobs, sinceClear, YTDLP_UPDATER_AVAILABLE,
                   recording, JOBS, tasks, dirs, setVars, UPDATE_JOB, seen, call, ytdlp>>

\* yt_backend.py:309-333, the handler
update_yt_dlp_api ==
    IF ~YTDLP_UPDATER_AVAILABLE THEN
        /\ resp' = Answer([code |-> 503, error |-> "ytdlp_updater not available"])
        /\ UNCHANGED <<now, nowRead, nowJobs, sinceClear, YTDLP_UPDATER_AVAILABLE,
                       recording, JOBS, tasks, dirs, setVars, updVars, call, ytdlp>>
    ELSE
        /\ FreeSlots # {}
        /\ LET i == CHOOSE j \in FreeSlots : \A k \in FreeSlots : j <= k
           IN  upd' = [upd EXCEPT ![i] = UpdThread("spawned", None)]
        /\ resp' = Answer([code |-> 200, status |-> "started"])
        /\ UNCHANGED <<now, nowRead, nowJobs, sinceClear, YTDLP_UPDATER_AVAILABLE,
                       recording, JOBS, tasks, dirs, setVars, UPDATE_JOB, seen, call, ytdlp>>

\* what a step of a _do_update thread leaves alone
UpdFrame == UNCHANGED <<now, nowJobs, sinceClear, YTDLP_UPDATER_AVAILABLE, recording, JOBS,
                        tasks, dirs, resp, setVars, seen, call>>

\* a faulty line 318 that leaves finished_at as it is; C27 tells it from
\* UpdRunning
UpdRunningKeepsFinished(i) ==
    /\ upd[i].pc = "spawned"
    /\ UPDATE_JOB' = [UPDATE_JOB EXCEPT !.status = "running",
                                        !.message = "Starting update...",
                                        !.started_at = <<now>>]
    /\ upd' = [upd EXCEPT ![i] = UpdThread("download", "running")]
    /\ nowRead' = TRUE
    /\ UNCHANGED ytdlp
    /\ UpdFrame

\* yt_backend.py:318
UpdRunning(i) ==
    /\ upd[i].pc = "spawned"
    /\ UPDATE_JOB' = [UPDATE_JOB EXCEPT !.status = "running",
                                        !.message = "Starting update...",
                                        !.started_at = <<now>>,
                                        !.finished_at = <<>>]
    /\ upd' = [upd EXCEPT ![i] = UpdThread("download", "running")]
    /\ nowRead' = TRUE
    /\ UNCHANGED ytdlp
    /\ UpdFrame

\* yt_backend.py:320-321 and 325-327: download_latest_ytdlp returns ok
UpdDownload(i, ok) ==
    /\ upd[i].pc = "download"
    /\ IF ok
       THEN /\ upd' = [upd EXCEPT ![i].pc = "ensure"]
            /\ \E fetched \in Contents : ytdlp' = [ytdlp EXCEPT !.file = fetched]
            /\ UNCHANGED <<UPDATE_JOB, nowRead>>
       ELSE /\ UPDATE_JOB' = [UPDATE_JOB EXCEPT !.status = "failed",
                                                !.message = "Download failed",
                                                !.finished_at = <<now>>]
            /\ upd' = [upd EXCEPT ![i] = UpdThread("done", "failed")]
            /\ nowRead' = TRUE
            /\ UNCHANGED ytdlp
    /\ UpdFrame

\* what ensure_ytdlp_binary can hand back: a version, None (with path None),
\* or "raise" for an exception
EnsureResults == {"2025.01.01", None, "raise"}

\* a faulty _do_update without the except block of lines 328-330: an
\* exception of ensure_ytdlp_binary ends the thread with the status left as
\* it is; C4 tells it from UpdEnsure
UpdEnsureUncaught(i, version) ==
    /\ upd[i].pc = "ensure"
    /\ IF version = "raise"
       THEN /\ UNCHANGED UPDATE_JOB
            /\ upd' = [upd EXCEPT ![i].pc = "done"]
       ELSE /\ UPDATE_JOB' = [UPDATE_JOB EXCEPT !.status = "succeeded",
                                                !.message = <<"Updated to ", version>>,
                                                !.finished_at = <<now>>,
                                                !.latest_version = version]
            /\ upd' = [upd EXCEPT ![i] = UpdThread("done", "succeeded")]
    /\ EnsureStep(version)
    /\ nowRead' = TRUE
    /\ UpdFrame

\* yt_backend.py:322-324 and 328-330
UpdEnsure(i, version) ==
    /\ upd[i].pc = "ensure"
    /\ IF version = "raise"
       THEN /\ UPDATE_JOB' = [UPDATE_JOB EXCEPT !.status = "failed",
                                                !.message = "<exception>",
                                                !.finished_at = <<now>>]
            /\ upd' = [upd EXCEPT ![i] = UpdThread("done", "failed")]
       ELSE /\ UPDATE_JOB' = [UPDATE_JOB EXCEPT !.status = "succeeded",
                                                !.message = <<"Updated to ", version>>,
                                                !.finished_at = <<now>>,
                                                !.latest_version = version]
            /\ upd' = [upd EXCEPT ![i] = UpdThread("done", "succeeded")]
    /\ EnsureStep(version)
    /\ nowRead' = TRUE
    /\ UpdFrame

\* the threads whose trigger was accepted and that have not written their
\* outcome
Pending == {i \in UpdSlots : upd[i].pc \in {"spawned", "download", "ensure"}}

\* the threads between their 'running' write and their outcome
InProgress == {i \in UpdSlots : upd[i].pc \in {"download", "ensure"}}

\* yt_backend.py:335-338, read by the poll loop of
\* ripperfox_launcher.py:453-466; pending notes the threads that were
\* pending when the answer was built
update_status ==
    /\ seen' = [job |-> UPDATE_JOB, pending |-> Pending]
    /\ UNCHANGED <<now, nowRead, nowJobs, sinceClear, YTDLP_UPDATER_AVAILABLE, recording,
                   JOBS, tasks, dirs, resp, setVars, UPDATE_JOB, upd, call, ytdlp>>

-----------------------------------------------------------------------------
(* POST /api/settings and the start of the process.                        *)

\* yt_backend.py:295-300: SETTINGS.update({...})
Merged(settings, new_data) ==
    DictUpdate(settings,
        [default_dir   |-> IF "default_dir" \in DOMAIN new_data
                           THEN new_data.default_dir ELSE settings.default_dir,
         default_args  |-> IF "default_args" \in DOMAIN new_data
                           THEN new_data.default_args ELSE settings.default_args,
         download_dirs |-> IF "download_dirs" \in DOMAIN new_data
                           THEN new_data.download_dirs ELSE GetDownloadDirs(settings),
         show_toasts   |-> IF "show_toasts" \in DOMAIN new_data
                           THEN new_data.show_toasts
                           ELSE IF "show_toasts" \in DOMAIN settings
                           THEN settings.show_toasts ELSE TRUE])

\* yt_backend.py:301-303: saved is what save_settings(SETTINGS) left
SettingsSaved(saved) ==
    /\ SETTINGS' = saved.data
    /\ settingsFile' = saved.file
    /\ resp' = Answer([code |-> 200, settings |-> saved.data])
    /\ UNCHANGED <<now, nowRead, nowJobs, sinceClear, YTDLP_UPDATER_AVAILABLE,
                   recording, JOBS, tasks, dirs, loaded, updVars, call, ytdlp>>

\* yt_backend.py:292-303
settings_post(new_data) == SettingsSaved(save_settings(Merged(SETTINGS, new_data)))

\* the record of one run of load_settings: the file it found (from), the
\* file it left (wrote), what it returned (ret) and the runtime copy it built
LoadRecord(file, l) ==
    [from |-> file, wrote |-> l.file, ret |-> l.ret, runtime |-> l.runtime]

\* the process is started again: the module is imported anew (yt_backend.py:94,
\* 260, 307), every thread of the old process is gone, the disk is kept; l is
\* what load_settings did
Restarted(l) ==
    /\ SETTINGS' = l.ret
    /\ settingsFile' = l.file
    /\ dirs' = l.dirs
    /\ loaded' = LoadRecord(settingsFile, l)
    /\ JOBS' = <<>>
    /\ tasks' = EmptyBag
    /\ UPDATE_JOB' = IdleUpdateJob
    /\ upd' = [i \in UpdSlots |-> UpdThread("none", None)]
    /\ seen' = NoDict
    /\ resp' = NoDict
    /\ nowJobs' = 0
    /\ sinceClear' = 0
    /\ call' = NoDict
    /\ UNCHANGED <<now, nowRead, YTDLP_UPDATER_AVAILABLE, recording, ytdlp>>

Restart(unwritable) == Restarted(load_settings(settingsFile, dirs, unwritable))

-----------------------------------------------------------------------------
(* The specifications.                                                     *)

\* the state after the import of yt_backend.py, l being what load_settings
\* did on the settings file `file` and install the yt-dlp installation
Imported(file, l, rec, install) ==
    /\ now = 1
    /\ nowRead = FALSE
    /\ nowJobs = 0
    /\ sinceClear = 0
    /\ YTDLP_UPDATER_AVAILABLE \in BOOLEAN
    /\ JOBS = <<>>
    /\ tasks = EmptyBag
    /\ dirs = l.dirs
    /\ resp = NoDict
    /\ recording = rec
    /\ SETTINGS = l.ret
    /\ settingsFile = l.file
    /\ loaded = LoadRecord(file, l)
    /\ UPDATE_JOB = IdleUpdateJob
    /\ upd = [i \in UpdSlots |-> UpdThread("none", None)]
    /\ seen = NoDict
    /\ call = NoDict
    /\ ytdlp = install

\* the state after the import with the settings file `file` on a disk where
\* the directories `unwritable` cannot be created
InitWith(file, unwritable, rec) ==
    Imported(file, load_settings(file, {}, unwritable), rec, WorkingInstall)

\* the requests the tracker specification sends to POST /api/download
TrackerUrls == {None, "https://youtu.be/abc"}

BinaryOutcomes == {"rc0", "rcN", "raise"}
LibraryOutcomes == {"ok", "raise"}

Init == InitWith(FileMissing, {}, FALSE)

Next ==
    \/ Tick
    \/ \E url \in TrackerUrls, makedirs_ok \in BOOLEAN : download(url, makedirs_ok)
    \/ \E t \in BagToSet(tasks) : TaskStart(t)
    \/ \E t \in BagToSet(tasks), o \in BinaryOutcomes : TaskBinary(t, o)
    \/ \E t \in BagToSet(tasks), o \in LibraryOutcomes : TaskLibrary(t, o)
    \/ \E t \in BagToSet(tasks) : TaskExcept(t)
    \/ \E t \in BagToSet(tasks) : TaskCleanup(t)
    \/ \E t \in BagToSet(tasks) : TaskDelete(t)
    \/ clear_status

\* the job tracker: dispatches, the threads they start, clears, the clock
Spec == Init /\ [][Next]_vars

\* the ids a job can get
JobIds == 1..MaxTime

\* a step of a run_job thread of the job id j
JobStep(j) ==
    \E t \in BagToSet(tasks) :
        /\ t.job = j
        /\ \/ TaskStart(t)
           \/ \E o \in BinaryOutcomes : TaskBinary(t, o)
           \/ \E o \in LibraryOutcomes : TaskLibrary(t, o)
           \/ TaskExcept(t)
           \/ TaskCleanup(t)
           \/ TaskDelete(t)

\* a started thread is scheduled, and run_ytdlp_with_binary and ydl.download
\* return or raise
JobFairness == \A j \in JobIds : WF_vars(JobStep(j))

\* the entry of a job that was dispatched at the time job_id and is done
Completed(job_id, settings) ==
    [id |-> job_id, url |-> "https://youtu.be/abc",
     site |-> SiteOf(UrlHostname("https://youtu.be/abc")),
     status |-> "completed", dir |-> settings.default_dir]

\* the tracker at its limit: a job was dispatched and has completed in each
\* of the first JOB_HISTORY_LIMIT milliseconds, and no thread is left
FullWith(l) ==
    /\ now = JOB_HISTORY_LIMIT + 1
    /\ nowRead = FALSE
    /\ nowJobs = 0
    /\ sinceClear = JOB_HISTORY_LIMIT
    /\ YTDLP_UPDATER_AVAILABLE \in BOOLEAN
    /\ JOBS = [i \in 1..JOB_HISTORY_LIMIT |-> Completed(i, l.ret)]
    /\ tasks = EmptyBag
    /\ dirs = l.dirs \cup {abspath(l.ret.default_dir)}
    /\ resp = NoDict
    /\ recording = FALSE
    /\ SETTINGS = l.ret
    /\ settingsFile = l.file
    /\ loaded = LoadRecord(FileMissing, l)
    /\ UPDATE_JOB = IdleUpdateJob
    /\ upd = [i \in UpdSlots |-> UpdThread("none", None)]
    /\ seen = NoDict
    /\ call = NoDict
    /\ ytdlp = WorkingInstall

InitFull == FullWith(load_settings(FileMissing, {}, {}))

\* the tracker from its limit on, every started thread being scheduled
SpecFullFair == InitFull /\ [][Next]_vars /\ JobFairness

-----------------------------------------------------------------------------
(* The dispatcher: POST /api/download for every kind of URL against a      *)
(* settings document with site groups, answers recorded.  The clock stops  *)
(* at MaxDispatchTime, so the tracker stays under JOB_HISTORY_LIMIT and no *)
(* thread reaches the delete loop.                                         *)

YoutubeGroup ==
    <<"*","y","o","u","t","u","b","e","*",","," ","*","y","o","u","t","u",".","b","e","*">>
VimeoGroup == <<"v","i","m","e","o",".","c","o","m">>
AnyGroup == <<"*">>

\* a settings file with three site groups, the last one for every other
\* host and without a directory
SiteDocument ==
    [default_dir   |-> <<"dl">>,
     default_args  |-> "-f best",
     download_dirs |-> <<[key |-> YoutubeGroup, cfg |-> [dir |-> <<"yt">>, args |-> "-x"]],
                         [key |-> VimeoGroup,
                          cfg |-> [dir |-> <<"/", "media", "v">>, args |-> ""]],
                         [key |-> AnyGroup, cfg |-> [args |-> "-q"]]>>,
     show_toasts   |-> FALSE]

DispatchFiles == {FileMissing, FileDocument(SiteDocument)}

ValidUrls == {"https://youtu.be/abc", "https://Vimeo.com/1", "magnet:?xt=1"}
DispatchUrls == {None, ""} \cup ValidUrls

InitDispatch == \E file \in DispatchFiles : InitWith(file, {}, TRUE)

DispatchTick == now < MaxDispatchTime /\ Tick

NextDispatch ==
    \/ DispatchTick
    \/ \E url \in DispatchUrls, makedirs_ok \in BOOLEAN : download(url, makedirs_ok)
    \/ \E t \in BagToSet(tasks) : TaskStart(t)
    \/ \E t \in BagToSet(tasks), o \in BinaryOutcomes : TaskBinary(t, o)
    \/ \E t \in BagToSet(tasks), o \in LibraryOutcomes : TaskLibrary(t, o)
    \/ \E t \in BagToSet(tasks) : TaskExcept(t)
    \/ \E t \in BagToSet(tasks) : TaskCleanup(t)
    \/ clear_status

SpecDispatch == InitDispatch /\ [][NextDispatch]_vars

-----------------------------------------------------------------------------
(* The update orchestrator: triggers, the threads they start, polls.       *)

InitUpdate == InitWith(FileMissing, {}, TRUE)

NextUpdate ==
    \/ Tick
    \/ update_yt_dlp_api
    \/ \E i \in UpdSlots : UpdRunning(i)
    \/ \E i \in UpdSlots, ok \in BOOLEAN : UpdDownload(i, ok)
    \/ \E i \in UpdSlots, version \in EnsureResults : UpdEnsure(i, version)
    \/ update_status

SpecUpdate == InitUpdate /\ [][NextUpdate]_vars

\* a started thread is scheduled, and download_latest_ytdlp and
\* ensure_ytdlp_binary return or raise
UpdateFairness ==
    \A i \in UpdSlots :
        /\ WF_vars(UpdRunning(i))
        /\ WF_vars(\E ok \in BOOLEAN : UpdDownload(i, ok))
        /\ WF_vars(\E version \in EnsureResults : UpdEnsure(i, version))

SpecUpdateFair == InitUpdate /\ [][NextUpdate]_vars /\ UpdateFairness

-----------------------------------------------------------------------------
(* The settings store: the process starts on a settings file, settings are *)
(* posted, the process is started again on the file it left.               *)

DirsInBase == <<[key |-> YoutubeGroup, cfg |-> [dir |-> <<"/", "app", "yt">>, args |-> "-x"]]>>
DirsRelative == <<[key |-> YoutubeGroup, cfg |-> [dir |-> <<"yt">>, args |-> "-x"]]>>
DirsOutside == <<[key |-> VimeoGroup, cfg |-> [dir |-> <<"/", "media", "v">>, args |-> ""]]>>
DirsNotNormal ==
    <<[key |-> YoutubeGroup, cfg |-> [dir |-> <<"/", "app", "a", "..", "yt">>]],
      [key |-> VimeoGroup, cfg |-> [dir |-> <<"/", "app", "..", "media">>]],
      [key |-> AnyGroup, cfg |-> [args |-> "-q"]]>>

\* the settings files the process is started on
SettingsFiles ==
    {FileMissing, FileEmpty, FileCorrupt,
     FileDocument([default_dir |-> <<"downloads">>, default_args |-> "-x",
                   download_dirs |-> <<>>, show_toasts |-> TRUE]),
     FileDocument([default_dir |-> <<"/", "app", "dl">>, download_dirs |-> DirsInBase,
                   yt_dlp_path |-> "yt-dlp"]),
     FileDocument([default_dir |-> <<"/", "media">>, default_args |-> "",
                   download_dirs |-> DirsRelative, show_toasts |-> FALSE]),
     FileDocument([default_args |-> "-x"])}

\* the bodies of POST /api/settings
NewData ==
    {[default_dir |-> <<"/", "app", "dl">>],
     [default_dir |-> <<"music">>, download_dirs |-> DirsInBase],
     [default_dir |-> <<"/", "media">>, download_dirs |-> DirsOutside, show_toasts |-> FALSE],
     [download_dirs |-> DirsRelative, default_args |-> "-x"],
     [default_dir |-> BASE_DIR, download_dirs |-> DirsNotNormal],
     <<>>}

\* the directories os.makedirs fails on
UnwritableSets ==
    {{},
     {<<"/", "media">>},
     {<<"/", "media">>, <<"/", "app", "downloads">>},
     {<<"/", "media">>, <<"/", "app", "downloads">>, <<"/", "home", "u", "Downloads">>}}

InitSettings ==
    \E file \in SettingsFiles, unwritable \in UnwritableSets : InitWith(file, unwritable, TRUE)

NextSettings ==
    \/ \E new_data \in NewData : settings_post(new_data)
    \/ \E unwritable \in UnwritableSets : Restart(unwritable)

SpecSettings == InitSettings /\ [][NextSettings]_vars

-----------------------------------------------------------------------------
(* The job threads over every yt-dlp installation: dispatches within one   *)
(* millisecond, their threads, clears.                                     *)

\* the installations the process can find at its start
Installs ==
    {[file |-> f, frozen |-> z, bundled |-> b] :
        f \in {"absent"} \cup Contents, z \in BOOLEAN, b \in {"absent"} \cup Contents}

InitInstall ==
    \E install \in Installs :
        Imported(FileMissing, load_settings(FileMissing, {}, {}), FALSE, install)

NextInstall ==
    \/ \E url \in TrackerUrls, makedirs_ok \in BOOLEAN : download(url, makedirs_ok)
    \/ \E t \in BagToSet(tasks) : TaskStart(t)
    \/ \E t \in BagToSet(tasks), o \in BinaryOutcomes : TaskBinary(t, o)
    \/ \E t \in BagToSet(tasks), o \in LibraryOutcomes : TaskLibrary(t, o)
    \/ \E t \in BagToSet(tasks) : TaskExcept(t)
    \/ \E t \in BagToSet(tasks) : TaskCleanup(t)
    \/ clear_status

SpecInstall == InitInstall /\ [][NextInstall]_vars

-----------------------------------------------------------------------------
(* ytdlp_updater.py on its own: ensure_ytdlp_binary applied to every       *)
(* installation and every outcome of the download it may make, and         *)
(* check_for_ytdlp_update to every current version and every answer of the *)
(* release endpoint.                                                       *)

\* ensure_ytdlp_binary() is called; r is what it does
Ensuring(fetched, r) ==
    /\ call' = [op |-> "ensure_ytdlp_binary", install |-> ytdlp, fetched |-> fetched,
                result |-> r]
    /\ ytdlp' = [ytdlp EXCEPT !.file = r.file]
    /\ UNCHANGED <<now, nowRead, nowJobs, sinceClear, YTDLP_UPDATER_AVAILABLE, recording,
                   JOBS, tasks, dirs, resp, setVars, updVars>>

ensure_call(fetched) == Ensuring(fetched, ensure_ytdlp_binary(ytdlp, fetched))

\* check_for_ytdlp_update(current_version) is called and the release
\* endpoint answers with response
check_call(current_version, response) ==
    /\ call' = [op |-> "check_for_ytdlp_update", current_version |-> current_version,
                response |-> response,
                result |-> check_for_ytdlp_update(current_version, response)]
    /\ UNCHANGED <<now, nowRead, nowJobs, sinceClear, YTDLP_UPDATER_AVAILABLE, recording,
                   JOBS, tasks, dirs, resp, setVars, updVars, ytdlp>>

InitUpdater == InitInstall

NextUpdater ==
    \/ \E fetched \in Fetches : ensure_call(fetched)
    \/ \E current_version \in CurrentVersions, response \in Responses :
          check_call(current_version, response)

SpecUpdater == InitUpdater /\ [][NextUpdater]_vars

-----------------------------------------------------------------------------
(* The site matcher on its own: get_site_config applied to every URL and   *)
(* every mapping of up to MaxGroups site groups.                           *)

\* matches youtu.be by the glob alone and m.youtube.com by the substring alone
LooseGroup == <<"y","o","u","t","u",".","b","?",","," ","t","u","b","e">>
BeGroup == <<"*",".","b","e",",",",","*","t","u",".","b","e">>

\* the site groups a mapping is made of; one has an empty configuration
MatcherGroups ==
    {[key |-> YoutubeGroup, cfg |-> [dir |-> <<"yt">>, args |-> "-x"]],
     [key |-> VimeoGroup, cfg |-> [dir |-> <<"/", "media", "v">>, args |-> ""]],
     [key |-> AnyGroup, cfg |-> [args |-> "-q"]],
     [key |-> LooseGroup, cfg |-> <<>>],
     [key |-> BeGroup, cfg |-> [dir |-> <<"be">>]]}

\* the mappings: a dict has each key once
Mappings ==
    {m \in UNION {[1..n -> MatcherGroups] : n \in 0..MaxGroups} :
        \A i, j \in 1..Len(m) : i # j => m[i].key # m[j].key}

MatcherUrls == ValidUrls \cup {"https://m.youtube.com/w"}

\* yt_backend.py:263-286, called with url and download_dirs
site_config_call(url, download_dirs) ==
    /\ call' = [op |-> "get_site_config", url |-> url, download_dirs |-> download_dirs,
                result |-> get_site_config(url, download_dirs)]
    /\ UNCHANGED <<now, nowRead, nowJobs, sinceClear, YTDLP_UPDATER_AVAILABLE, recording,
                   JOBS, tasks, dirs, resp, setVars, updVars, ytdlp>>

InitMatcher == InitWith(FileMissing, {}, FALSE)

NextMatcher ==
    \E url \in MatcherUrls, download_dirs \in Mappings : site_config_call(url, download_dirs)

SpecMatcher == InitMatcher /\ [][NextMatcher]_vars

-----------------------------------------------------------------------------
(* The claims.                                                             *)

\* C1, as claimed: in every reachable state the tracker holds at most
\* JOB_HISTORY_LIMIT entries.  Refuted under Spec: the dispatch inserts
\* without evicting, and a job whose binary run exits 0 returns at line 392
\* before the eviction of lines 412-414.
C1_TrackerWithinLimit == Len(JOBS) <= JOB_HISTORY_LIMIT

\* C2, as claimed: an eviction runs with more than JOB_HISTORY_LIMIT entries,
\* each of its deletions removes the oldest entry, never one of the
\* JOB_HISTORY_LIMIT newest, and when it ends exactly JOB_HISTORY_LIMIT
\* entries remain, whatever is interleaved with it.  Refuted under Spec: a
\* dispatch between the snapshot of line 413 and the deletions leaves more.
C2_EvictionExact ==
    [][\A t \in BagToSet(tasks) :
        (TaskDelete(t) /\ HasKey(JOBS, Head(t.olds))) =>
            /\ Len(JOBS) > JOB_HISTORY_LIMIT
            /\ JOBS' = Tail(JOBS)
            /\ IndexOf(JOBS, Head(t.olds)) <= Len(JOBS) - JOB_HISTORY_LIMIT
            /\ (Tail(t.olds) = <<>> => Len(JOBS') = JOB_HISTORY_LIMIT)]_vars

\* C3, as claimed: a read of the update status made while an accepted
\* trigger's thread has yet to write its outcome returns 'running'.  Refuted
\* under SpecUpdate: 'running' is written by the thread, not by the handler.
C3_PollSeesRunning ==
    (seen # NoDict /\ seen.pending # {}) => seen.job.status = "running"

\* C4: the status is 'idle' exactly as long as no update thread has written
\* to it and never becomes 'idle' again; the step that ends an update thread
\* leaves the status 'succeeded' or 'failed'; and every started thread ends,
\* given that the calls it makes return.
C4_UpdateOutcome ==
    /\ [](UPDATE_JOB.status = "idle" <=> \A i \in UpdSlots : upd[i].wrote = None)
    /\ [][UPDATE_JOB.status # "idle" => UPDATE_JOB'.status # "idle"]_vars
    /\ [][\A i \in UpdSlots :
            (upd[i].pc # "done" /\ upd'[i].pc = "done") =>
                /\ UPDATE_JOB'.status \in {"succeeded", "failed"}
                /\ UPDATE_JOB'.status = upd'[i].wrote]_vars
    /\ \A i \in UpdSlots : (upd[i].pc = "spawned") ~> (upd[i].pc = "done")

\* C4 happens: one thread has ended with 'failed', another with 'succeeded'
C4_BothOutcomes ==
    \E i, j \in UpdSlots :
        /\ upd[i].pc = "done" /\ upd[i].wrote = "failed"
        /\ upd[j].pc = "done" /\ upd[j].wrote = "succeeded"
        /\ UPDATE_JOB.status = "succeeded"

\* C5, as claimed: at most one update thread is between its 'running' write
\* and its outcome.  Refuted under SpecUpdate: the handler starts a thread
\* for every trigger.
C5_SingleFlight == Cardinality(InProgress) <= 1

\* C6, as claimed: no two accepted dispatches are given the same id.
\* Refuted under Spec: two dispatches within one millisecond draw the id from
\* the same clock value, and the second overwrites the entry of the first.
C6_UniqueIds == nowJobs <= 1

\* C7: a dispatch with an absent or empty url answers 400 and leaves the
\* tracker, the threads and the directories as they are.
C7_EmptyUrlRejected ==
    [][\A url \in {None, ""}, makedirs_ok \in BOOLEAN :
        download(url, makedirs_ok) =>
            /\ resp'.code = 400
            /\ UNCHANGED <<JOBS, tasks, dirs>>]_vars

\* C7 happens: a dispatch was answered 400 while entries are tracked and a
\* thread is alive
C7_RejectedAmongJobs ==
    /\ resp # NoDict
    /\ resp.code = 400
    /\ JOBS # <<>>
    /\ tasks # EmptyBag

\* the site groups of SETTINGS with a pattern that matches the host of url
C8_Matching(url) ==
    {i \in 1..Len(GetDownloadDirs(SETTINGS)) :
        GroupMatches(HostOf(UrlHostname(url)), SETTINGS.download_dirs[i].key)}

\* the directory C8 expects: the dir of the first matching group, or
\* default_dir when no group matches
C8_ResolvedDir(url) ==
    IF C8_Matching(url) = {} THEN SETTINGS.default_dir
    ELSE DictGet(SETTINGS.download_dirs[
                    CHOOSE i \in C8_Matching(url) : \A j \in C8_Matching(url) : i <= j].cfg,
                 "dir")

\* what C8 expects of a dispatch of url that is answered with an id: the
\* tracker holds exactly one entry under that id, with status 'starting',
\* the url, the hostname or 'unknown' and the resolved directory; every other
\* entry is as it was; and one thread for that id is started
C8_Dispatched(url) ==
    /\ resp'.code = 200
    /\ Cardinality({i \in 1..Len(JOBS') : JOBS'[i].id = resp'.job_id}) = 1
    /\ JOBS'[IndexOf(JOBS', resp'.job_id)] =
            [id |-> resp'.job_id, url |-> url,
             site |-> IF UrlHostname(url) = None THEN "unknown" ELSE UrlHostname(url),
             status |-> "starting", dir |-> C8_ResolvedDir(url)]
    /\ \A i \in 1..Len(JOBS) :
            JOBS[i].id # resp'.job_id => \E j \in 1..Len(JOBS') : JOBS'[j] = JOBS[i]
    /\ Len(JOBS') = Len(JOBS) + (IF HasKey(JOBS, resp'.job_id) THEN 0 ELSE 1)
    /\ tasks' = tasks (+) SetToBag({Task(resp'.job_id, "start", <<>>)})

C9_StatusLastTen ==
    /\ status = SubSeq(JOBS, Len(JOBS) - Min(Len(JOBS), JOB_HISTORY_LIMIT) + 1, Len(JOBS))
    /\ sinceClear > JOB_HISTORY_LIMIT => Len(status) = JOB_HISTORY_LIMIT

\* C10, as claimed: the settings load_settings returns have an absolute
\* default_dir.  Refuted under SpecSettings: for a file that exists the
\* function returns base (line 257), whose default_dir is as stored.
C10_LoadedDefaultDirAbsolute == isabs(loaded.ret.default_dir)

\* the groups of the mapping of the last get_site_config call with a pattern
\* that the host glob-matches or contains once stripped of its wildcards
C11_Qualifying ==
    {i \in 1..Len(call.download_dirs) :
        GroupMatches(HostOf(UrlHostname(call.url)), call.download_dirs[i].key)}

\* C11, as claimed: get_site_config returns the configuration of the first
\* qualifying group, and none exactly when no group qualifies.  Refuted
\* under SpecMatcher: a qualifying group with an empty configuration is
\* passed over (`if matched_cfg` at lines 278 and 281 tests the dict, not
\* whether a group matched).
C11_FirstQualifyingGroup ==
    (call # NoDict /\ call.op = "get_site_config") =>
        IF C11_Qualifying = {} THEN call.result = NoDict
        ELSE call.result =
                call.download_dirs[CHOOSE i \in C11_Qualifying :
                                        \A j \in C11_Qualifying : i <= j].cfg

\* the status of the tracked entry k in the tracker jobs
C12_StatusOf(jobs, k) == jobs[IndexOf(jobs, k)].status

\* C12: the library attempt of a job that is still tracked leaves its status
\* 'completed' when ydl.download returns and 'error: <message of the
\* exception>' when it raises, and the thread writes no status after that;
\* 'error: <stderr>' is an intermediate value: while an entry carries it, a
\* thread of that job is about to make the library attempt.
C12_LibraryDecides ==
    /\ [](\A i \in 1..Len(JOBS) :
            JOBS[i].status = "error: <stderr>" =>
                \E t \in BagToSet(tasks) : t.job = JOBS[i].id /\ t.pc = "library")
    /\ [][\A t \in BagToSet(tasks) :
            /\ (TaskLibrary(t, "ok") /\ HasKey(JOBS, t.job)) =>
                    C12_StatusOf(JOBS', t.job) = "completed"
            /\ (TaskLibrary(t, "raise") /\ HasKey(JOBS, t.job)) =>
                    C12_StatusOf(JOBS', t.job) = "error: <exception>"
            /\ (TaskCleanup(t) \/ TaskDelete(t)) =>
                    \A j \in 1..Len(JOBS') : \E i \in 1..Len(JOBS) : JOBS'[j] = JOBS[i]]_vars

\* C12 happens: with the binary in use, a thread has passed the library
\* attempt (so its binary attempt did not exit 0) and its entry is
\* 'completed', while another entry is 'error: <stderr>'
C12_CompletedAfterFallback ==
    /\ YTDLP_UPDATER_AVAILABLE
    /\ \E t \in BagToSet(tasks) :
            /\ t.pc = "cleanup"
            /\ HasKey(JOBS, t.job)
            /\ C12_StatusOf(JOBS, t.job) = "completed"
    /\ \E i \in 1..Len(JOBS) : JOBS[i].status = "error: <stderr>"

\* the default document, as C13 states it
C13_Defaults ==
    [default_dir   |-> <<"downloads">>,
     default_args  |-> "--recode-video mp4 --embed-thumbnail --embed-metadata",
     download_dirs |-> <<>>,
     show_toasts   |-> TRUE]

\* the settings file of the last load was missing, empty or unparseable
C13_NoDocument == loaded.from \in {FileMissing, FileEmpty, FileCorrupt}

C14_UnderBase(n) ==
    /\ Len(n) >= Len(BASE_DIR)
    /\ SubSeq(n, 1, Len(BASE_DIR)) = BASE_DIR

\* the normalised absolute path n, relative to the base directory
C14_RelativeToBase(n) ==
    IF Len(n) = Len(BASE_DIR) THEN <<".">> ELSE SubSeq(n, Len(BASE_DIR) + 1, Len(n))

\* the stored form C14 claims for the path p
C14_Expected(p) ==
    IF IsStr(p) /\ isabs(p) /\ C14_UnderBase(NormParts(p, <<>>))
    THEN C14_RelativeToBase(NormParts(p, <<>>))
    ELSE p

\* the paths of a document: default_dir and the dir of every site group
C14_Paths(doc) ==
    [default_dir   |-> DictGet(doc, "default_dir"),
     download_dirs |-> [i \in 1..Len(GetDownloadDirs(doc)) |->
                           [key |-> GetDownloadDirs(doc)[i].key,
                            dir |-> DictGet(GetDownloadDirs(doc)[i].cfg, "dir")]]]

\* the paths C14 claims save_settings stores for the document data
C14_ExpectedPaths(data) ==
    [default_dir   |-> C14_Expected(C14_Paths(data).default_dir),
     download_dirs |-> [i \in 1..Len(C14_Paths(data).download_dirs) |->
                           [key |-> C14_Paths(data).download_dirs[i].key,
                            dir |-> C14_Expected(C14_Paths(data).download_dirs[i].dir)]]]

\* C14: every save of POST /api/settings stores default_dir and each
\* download_dirs[*].dir that is absolute and lies under the base directory
\* as a path relative to the base directory and stores every other path as
\* it is; and the file a save leaves is a fixed point: loading it and saving
\* what was loaded stores the same paths again.
C14_StoredFormIdempotent ==
    [][\A new_data \in NewData :
          (resp' # NoDict /\ settings_post(new_data)) =>
              /\ IsDocument(settingsFile')
              /\ C14_Paths(settingsFile'.doc) = C14_ExpectedPaths(Merged(SETTINGS, new_data))
              /\ \A unwritable \in {{}, {<<"/", "media">>, <<"/", "app", "downloads">>}} :
                    \A l \in {load_settings(settingsFile', dirs, unwritable)} :
                        \A again \in {save_settings(l.ret)} :
                            C14_Paths(again.file.doc) = C14_Paths(settingsFile'.doc)]_vars

\* C14 happens: a path under the base directory was saved as '.', the file
\* was loaded by a new process, and the settings loaded were saved again
C14_SavedLoadedSaved ==
    /\ IsDocument(loaded.from)
    /\ "default_dir" \in DOMAIN loaded.from.doc
    /\ loaded.from.doc.default_dir = <<".">>
    /\ resp # NoDict
    /\ settingsFile = loaded.from

\* the default directory a settings file resolves to: its default_dir, or
\* 'downloads' when it has none, made absolute from the base directory
C15_Resolved(file) ==
    abspath(join(BASE_DIR, IF IsDocument(file) /\ "default_dir" \in DOMAIN file.doc
                           THEN file.doc.default_dir ELSE <<"downloads">>))

\* the first directory of <base>/downloads, ~/Downloads, the temp directory
\* that can be created
C15_FirstCreatable(unwritable) ==
    IF <<"/", "app", "downloads">> \notin unwritable THEN <<"/", "app", "downloads">>
    ELSE IF <<"/", "home", "u", "Downloads">> \notin unwritable
    THEN <<"/", "home", "u", "Downloads">>
    ELSE <<"/", "tmp">>

\* C15: when a process starts and the default directory its settings file
\* resolves to cannot be created, the settings load_settings returns have
\* as default_dir the first creatable directory of <base>/downloads,
\* ~/Downloads, the temp directory.  Refuted under SpecSettings: the
\* fallback goes into the runtime copy, and base is returned.
C15_FallbackReturned ==
    [][\A unwritable \in UnwritableSets :
          (resp' = NoDict /\ Restart(unwritable) /\ C15_Resolved(settingsFile') \in unwritable)
              => SETTINGS'.default_dir = C15_FirstCreatable(unwritable)]_vars

\* C16: without the updater module POST /api/update-yt-dlp answers 503,
\* starts no thread and leaves UPDATE_JOB as it is, so no thread ever runs
\* and UPDATE_JOB stays idle; with the module the answer is always
\* {status: started}.
C16_UnavailableAnswers503 ==
    /\ [](~YTDLP_UPDATER_AVAILABLE =>
            /\ UPDATE_JOB = IdleUpdateJob
            /\ \A i \in UpdSlots : upd[i].pc = "none")
    /\ [][update_yt_dlp_api =>
            IF ~YTDLP_UPDATER_AVAILABLE
            THEN /\ resp'.code = 503
                 /\ upd' = upd
                 /\ UPDATE_JOB' = UPDATE_JOB
            ELSE resp' = [code |-> 200, status |-> "started"]]_vars

\* C16 happens: the updater module is missing and the trigger was answered
C16_Answered503 ==
    /\ ~YTDLP_UPDATER_AVAILABLE
    /\ resp # NoDict
    /\ resp.code = 503

\* the ids the tracker holds
C17_Ids(jobs) == {jobs[i].id : i \in 1..Len(jobs)}

\* C17: DELETE /api/status leaves the tracker empty, the tracker is empty
\* as long as no dispatch was accepted since the last clear, and only an
\* accepted dispatch puts an id into the tracker: no step of a job thread
\* does, whether or not its entry is still there.
C17_ClearedStaysEmpty ==
    /\ [](sinceClear = 0 => JOBS = <<>>)
    /\ [][/\ clear_status => JOBS' = <<>>
          /\ \/ C17_Ids(JOBS') \subseteq C17_Ids(JOBS)
             \/ \E url \in TrackerUrls, makedirs_ok \in BOOLEAN : download(url, makedirs_ok)]_vars

\* C17 happens: the tracker was cleared, nothing was dispatched since, and
\* a thread that has written to its entry before is still running
C17_ClearedUnderRunningTask ==
    /\ sinceClear = 0
    /\ JOBS = <<>>
    /\ \E t \in BagToSet(tasks) : t.pc \in {"binary", "library", "except"}

\* C18: a run_job thread that writes a terminal status does not end with
\* that write; it goes on, to the library attempt or to the eviction check
\* of lines 412-414.  Refuted under Spec: after exit code 0 of the binary
\* the thread writes 'completed' and returns at line 392.
C18_EvictionCheckBeforeEnd ==
    [][\A t \in BagToSet(tasks) :
          (/\ t.pc \in {"binary", "library", "except"}
           /\ tasks' = Retire(tasks, t)
           /\ HasKey(JOBS, t.job))
              => JOBS'[IndexOf(JOBS', t.job)].status
                    \in {"starting", "running"}]_vars

\* the changes of UPDATE_JOB.status that C19 allows
C19_Allowed ==
    {<<"idle", "running">>, <<"succeeded", "running">>, <<"failed", "running">>,
     <<"running", "succeeded">>, <<"running", "failed">>}

\* C19: every change of UPDATE_JOB.status is idle, succeeded or failed to
\* running, running to succeeded, or running to failed.  Refuted under
\* SpecUpdateFair: of two _do_update threads that are both past line 318,
\* one writes its outcome over the outcome of the other.
C19_StatusCycle ==
    [][UPDATE_JOB'.status # UPDATE_JOB.status
          => <<UPDATE_JOB.status, UPDATE_JOB'.status>> \in C19_Allowed]_vars

\* C20: whenever UPDATE_JOB.status is 'succeeded', latest_version is a
\* version the binary reported, never None.  Refuted under SpecUpdate:
\* ensure_ytdlp_binary returns (None, None) for a binary that does not
\* verify, and line 323 writes 'succeeded' with that None.
C20_SucceededHasVersion ==
    UPDATE_JOB.status = "succeeded" =>
        /\ UPDATE_JOB.latest_version # None
        /\ UPDATE_JOB.latest_version # ""

\* C21: the structural operations of the tracker exclude one another, so
\* between the moment an eviction has built its list of old keys (line 413)
\* and the end of its loop no other eviction and no clear removes a key:
\* the key an eviction is about to delete is always in the tracker.
\* Refuted under Spec: nothing guards lines 412-414, 357 and 426, and a
\* clear or a second eviction removes the key first.
C21_EvictionFindsItsKeys ==
    \A t \in BagToSet(tasks) : t.pc = "delete" => HasKey(JOBS, Head(t.olds))

\* a step of the run_job thread t
C22_TaskStep(t) ==
    \/ TaskStart(t)
    \/ \E o \in BinaryOutcomes : TaskBinary(t, o)
    \/ \E o \in LibraryOutcomes : TaskLibrary(t, o)
    \/ TaskExcept(t)
    \/ TaskCleanup(t)
    \/ TaskDelete(t)

\* the entries of other ids are as they were or gone
C22_OthersKept(t) ==
    \A j \in 1..Len(JOBS') :
        JOBS'[j].id # t.job => \E i \in 1..Len(JOBS) : JOBS[i] = JOBS'[j]

\* C22: a step of a run_job thread writes no entry but its own and leaves
\* the settings, the settings file, UPDATE_JOB and the installed yt-dlp
\* binary as they are.  Refuted under SpecInstall: run_ytdlp_with_binary
\* calls ensure_ytdlp_binary, which copies or downloads the binary when the
\* installed one reports no version.
C22_TaskFrame ==
    [][\A t \in BagToSet(tasks) :
          C22_TaskStep(t) =>
              /\ C22_OthersKept(t)
              /\ UNCHANGED <<SETTINGS, settingsFile, UPDATE_JOB, ytdlp>>]_vars

\* the last call made on its own was ensure_ytdlp_binary
C23_Called == call # NoDict /\ call.op = "ensure_ytdlp_binary"

\* the strategies C23 lets ensure_ytdlp_binary go through on the
\* installation install
C23_Steps(install) ==
    IF install.file \in Versions THEN <<>>
    ELSE IF install.frozen /\ install.bundled \in Versions THEN <<"copy">>
    ELSE IF install.frozen /\ install.bundled # "absent" THEN <<"copy", "download">>
    ELSE <<"download">>

\* the version C23 lets ensure_ytdlp_binary report, None for none
C23_Version(install, fetched) ==
    IF install.file \in Versions THEN install.file
    ELSE IF install.frozen /\ install.bundled \in Versions THEN install.bundled
    ELSE IF fetched \in Versions THEN fetched
    ELSE None

\* C23: ensure_ytdlp_binary goes through the existing binary, the bundled
\* copy (in a packaged build only) and the download in this order and stops
\* at the first after which the binary reports a version; it leaves a
\* working binary untouched; it returns the path and the version, both
\* non-empty, or None for both.
C23_StrategiesInOrder ==
    C23_Called =>
        /\ call.result.steps = C23_Steps(call.install)
        /\ call.result.version = C23_Version(call.install, call.fetched)
        /\ call.install.file \in Versions => call.result.file = call.install.file
        /\ \/ call.result.path = None /\ call.result.version = None
           \/ /\ call.result.path # None /\ call.result.path # <<>>
              /\ call.result.version \in Versions

\* C23 happens: in a packaged build neither the installed nor the bundled
\* file reported a version, and the download brought one that does
C23_ThirdStrategyWorked ==
    /\ C23_Called
    /\ call.install.frozen
    /\ call.result.steps = <<"copy", "download">>
    /\ call.result.version \in Versions

\* the last call made on its own was check_for_ytdlp_update
C24_Called == call # NoDict /\ call.op = "check_for_ytdlp_update"

\* the versions the model's texts stand for, in their order: 1.2 (also
\* written 1.2.0), 1.10, 2.0; 0 for a text that is no version
C24_Rank(text) ==
    CASE text \in {<<"1", ".", "2">>, <<"1", ".", "2", ".", "0">>} -> 1
      [] text = <<"1", ".", "1", "0">> -> 2
      [] text = <<"2", ".", "0">> -> 3
      [] OTHER -> 0

\* C24: check_for_ytdlp_update never raises; for a network error, a status
\* other than 200 or a body that is no JSON it returns (False, None, []);
\* it returns needs_update True only when the current and the latest
\* version are both known and the latest is strictly newer.
C24_SoftFailure ==
    C24_Called =>
        /\ ~call.result.raised
        /\ call.response.kind \in {"error", "status", "invalid"} =>
              /\ ~call.result.needs_update
              /\ call.result.latest_version = NoText
              /\ call.result.assets = <<>>
        /\ call.result.needs_update =>
              /\ C24_Rank(call.current_version) > 0
              /\ C24_Rank(call.result.latest_version) > C24_Rank(call.current_version)

\* C24 happens: the endpoint named a newer release than the current one
C24_UpdateFound ==
    /\ C24_Called
    /\ call.current_version = <<"1", ".", "2">>
    /\ call.result.needs_update
    /\ call.result.latest_version = <<"1", ".", "1", "0">>

\* the entry of the id j is tracked and is not in a terminal status
C25_Unfinished(j) ==
    /\ HasKey(JOBS, j)
    /\ JOBS[IndexOf(JOBS, j)].status \in {"starting", "running"}

\* C25: when every started thread is scheduled and the external calls
\* return or raise, an entry that is 'starting' or 'running' gets a
\* terminal status, 'completed' or 'error: ...', or leaves the tracker.
C25_TerminalFollows == \A j \in JobIds : C25_Unfinished(j) ~> ~C25_Unfinished(j)

\* C25 happens: a job dispatched into the full tracker has its terminal
\* status after the library attempt, and its thread has ended
C25_FinishedInFullTracker ==
    \E j \in JobIds :
        /\ j > JOB_HISTORY_LIMIT
        /\ HasKey(JOBS, j)
        /\ JOBS[IndexOf(JOBS, j)].status = "error: <exception>"
        /\ \A t \in BagToSet(tasks) : t.job # j

\* C26: after POST /api/settings the settings in memory are the merged
\* document, default_dir and every download_dirs[*].dir as they were set:
\* save_settings rewrites paths in the file alone.  Refuted under
\* SpecSettings: to_save is a shallow copy, and the cfg dicts that
\* save_settings rewrites are those of SETTINGS.
C26_SaveKeepsDocument ==
    [][\A new_data \in NewData :
          (resp' # NoDict /\ settings_post(new_data))
              => SETTINGS' = Merged(SETTINGS, new_data)]_vars

C28_Status(jobs, j) == jobs[IndexOf(jobs, j)].status

\* C28: while an entry is tracked, a status 'completed' stays, and a status
\* that is neither 'starting' nor 'running' does not become 'starting' or
\* 'running'.  Refuted under Spec: a second dispatch in the same
\* millisecond stores a fresh entry under the same id, and the thread of
\* the first one writes into the entry of the second.
C28_CompletedIsFinal ==
    [][\A j \in JobIds :
          (HasKey(JOBS, j) /\ HasKey(JOBS', j)) =>
              /\ C28_Status(JOBS, j) = "completed" => C28_Status(JOBS', j) = "completed"
              /\ C28_Status(JOBS, j) \notin {"starting", "running"}
                    => C28_Status(JOBS', j) \notin {"starting", "running"}]_vars

====
